---- MODULE Spec2Model ----
(***************************************************************************)
(* Model of kdht (src/dht22.c, src/locking.c): the DHT22 reader.           *)
(*                                                                         *)
(* src/dht22.c holds two revisions of the program one after the other;     *)
(* the model follows the later one (lines 280-726), which is the one with  *)
(* the persisted reading and the consistency check.                        *)
(*                                                                         *)
(* C `float` values are modelled as IEEE-754 binary32 numbers: a record    *)
(* [m, e] stands for m * 2^e with 2^23 <= |m| < 2^24, or m = 0, e = 0 for  *)
(* zero (the sign of zero is not kept: -0.0f == 0.0f in every comparison   *)
(* the program makes).  Arithmetic rounds to nearest, ties to even, as the *)
(* VFP unit of the target (FLT_EVAL_METHOD 0) does.                        *)
(***************************************************************************)
EXTENDS Integers, Sequences, FiniteSets, TLC

(***************************************************************************)
(* binary32 arithmetic                                                     *)
(***************************************************************************)
Abs(n) == IF n < 0 THEN -n ELSE n

Sgn(n) == IF n < 0 THEN -1 ELSE IF n > 0 THEN 1 ELSE 0

RECURSIVE BitLen(_)
BitLen(n) == IF n = 0 THEN 0 ELSE 1 + BitLen(n \div 2)

F32Zero == [m |-> 0, e |-> 0]

\* The binary32 nearest to N * 2^e (ties to even), for an integer |N| < 2^31.
F32Round(N, e) ==
    LET a == Abs(N)
        k == BitLen(a) - 24
    IN  IF a = 0 THEN F32Zero
        ELSE IF k <= 0 THEN [m |-> N * 2^(-k), e |-> e + k]
        ELSE LET q    == a \div 2^k
                 r    == a % 2^k
                 half == 2^(k - 1)
                 up   == r > half \/ (r = half /\ q % 2 = 1)
                 m1   == IF up THEN q + 1 ELSE q
             IN  IF m1 = 2^24
                 THEN [m |-> Sgn(N) * 2^23, e |-> e + k + 1]
                 ELSE [m |-> Sgn(N) * m1, e |-> e + k]

\* (float)n for an int n
F32FromInt(n) == F32Round(n, 0)

\* Long division: the quotient q of the running dividend by d is extended one
\* binary digit at a time until it has 27 bits; s counts the digits added.
RECURSIVE DivBits(_, _, _, _)
DivBits(q, r, d, s) ==
    IF q >= 2^26 THEN [q |-> q, r |-> r, s |-> s]
    ELSE IF 2 * r >= d THEN DivBits(2 * q + 1, 2 * r - d, d, s + 1)
    ELSE DivBits(2 * q, 2 * r, d, s + 1)

\* x / (float)d for a binary32 x and an int 0 < d < 2^24 (exact as a float):
\* the binary32 nearest to the quotient.  The last bit of the 28-bit value
\* handed to F32Round records a non-zero remainder.
F32Div(x, d) ==
    IF x.m = 0 THEN F32Zero
    ELSE LET a == Abs(x.m)
             D == DivBits(a \div d, a % d, d, 0)
             N == 2 * D.q + (IF D.r # 0 THEN 1 ELSE 0)
         IN  F32Round(Sgn(x.m) * N, x.e - (D.s + 1))

F32Neg(x) == [m |-> -x.m, e |-> x.e]

\* x + y.  The operand with the smaller exponent is aligned to the other;
\* when more than 5 bits of it fall off, the lost bits are recorded in the
\* last bit of the sum handed to F32Round.
F32Add(x, y) ==
    IF x.m = 0 THEN y
    ELSE IF y.m = 0 THEN x
    ELSE LET big   == IF x.e >= y.e THEN x ELSE y
             small == IF x.e >= y.e THEN y ELSE x
             shift == big.e - small.e
         IN  IF shift <= 5
             THEN F32Round(big.m * 2^shift + small.m, small.e)
             ELSE LET s   == shift - 5
                      a   == Abs(small.m)
                      qa  == IF s >= 25 THEN 0 ELSE a \div 2^s
                      ra  == IF s >= 25 THEN a ELSE a % 2^s
                      jam == IF ra # 0 THEN 1 ELSE 0
                  IN  F32Round(big.m * 2^6 + Sgn(small.m) * (2 * qa + jam),
                               big.e - 6)

F32Sub(x, y) == F32Add(x, F32Neg(y))

\* x * n for a small int n (|n| * 2^24 < 2^31, i.e. |n| <= 127) times 2^p
F32MulSmall(x, n, p) == F32Round(x.m * n, x.e + p)

\* x < y
F32Lt(x, y) == F32Sub(x, y).m < 0

\* (int)x: conversion truncates toward zero (|x| < 2^31)
F32ToInt(x) ==
    IF x.e >= 0 THEN x.m * 2^x.e
    ELSE IF -x.e >= 31 THEN 0
    ELSE Sgn(x.m) * (Abs(x.m) \div 2^(-x.e))

(***************************************************************************)
(* Types and constants of dht22.c                                          *)
(***************************************************************************)
RESULT_OK           == "RESULT_OK"
RESULT_BAD_DATA     == "RESULT_BAD_DATA"
RESULT_ALL_ZERO     == "RESULT_ALL_ZERO"
RESULT_INCONSISTENT == "RESULT_INCONSISTENT"
RESULT_INVALID      == "RESULT_INVALID"

\* 99.9f
MAX_HUMIDITY == F32Div(F32FromInt(999), 10)

MAX_READING_LENGTH == 20

INVALID_VALUES ==
    [result |-> RESULT_INVALID, humidity |-> F32Zero, temperature |-> F32Zero]

(***************************************************************************)
(* evaluate, evaluate_last                                                 *)
(***************************************************************************)
\* evaluate with MAX_HUMIDITY <= humidity for the range check
evaluate_le(v) ==
    IF ~F32Lt(v.humidity, MAX_HUMIDITY) THEN RESULT_INVALID
    ELSE IF v.humidity.m = 0 /\ v.temperature.m = 0 THEN RESULT_ALL_ZERO
    ELSE RESULT_OK

evaluate(v) ==
    IF F32Lt(MAX_HUMIDITY, v.humidity) THEN RESULT_INVALID
    ELSE IF v.humidity.m = 0 /\ v.temperature.m = 0 THEN RESULT_ALL_ZERO
    ELSE RESULT_OK

\* abs() of <stdlib.h> is int abs(int): the float argument is converted to
\* int, which truncates toward zero, and the int result is what is compared
\* with 5.0f.
abs(x) == Abs(F32ToInt(x))

\* evaluate_last without the test RESULT_OK == values->result: the reading is
\* compared with the stored and the last read values whatever evaluate said
evaluate_last_unchecked(last_stored, v, last_read) ==
    LET r0 == evaluate(v)
    IN  IF last_stored.result = RESULT_OK
        THEN LET far  == \/ abs(F32Sub(last_stored.temperature, v.temperature)) > 5
                         \/ abs(F32Sub(last_stored.humidity, v.humidity)) > 5
                 near == /\ last_read.result = RESULT_INCONSISTENT
                         /\ abs(F32Sub(last_read.temperature, v.temperature)) < 5
                         /\ abs(F32Sub(last_read.humidity, v.humidity)) < 5
                 r    == IF far
                         THEN IF near THEN RESULT_OK ELSE RESULT_INCONSISTENT
                         ELSE r0
                 v2   == [v EXCEPT !.result = r]
             IN  [values |-> v2, last_read |-> v2]
        ELSE [values |-> [v EXCEPT !.result = r0], last_read |-> last_read]

\* The call changes *values and *last_read; both are returned.
evaluate_last(last_stored, v, last_read) ==
    LET r0 == evaluate(v)
    IN  IF r0 = RESULT_OK /\ last_stored.result = RESULT_OK
        THEN LET far  == \/ abs(F32Sub(last_stored.temperature, v.temperature)) > 5
                         \/ abs(F32Sub(last_stored.humidity, v.humidity)) > 5
                 near == /\ last_read.result = RESULT_INCONSISTENT
                         /\ abs(F32Sub(last_read.temperature, v.temperature)) < 5
                         /\ abs(F32Sub(last_read.humidity, v.humidity)) < 5
                 r    == IF far
                         THEN IF near THEN RESULT_OK ELSE RESULT_INCONSISTENT
                         ELSE r0
                 v2   == [v EXCEPT !.result = r]
             IN  [values |-> v2, last_read |-> v2]
        ELSE [values |-> [v EXCEPT !.result = r0], last_read |-> last_read]

(***************************************************************************)
(* read_dht22_data: the decoding of a capture (lines 598-617).  A capture  *)
(* is the state of the locals when the polling loop ends: j, the number of *)
(* bits stored, and dht22_data, the five ints they were shifted into.      *)
(***************************************************************************)
\* the test of line 600 with the checksum compared on its low 7 bits only
frame_complete_7bit(cap) ==
    LET d        == cap.data
        data_sum == d[1] + d[2] + d[3] + d[4]
    IN  cap.j >= 40 /\ d[5] % 128 = data_sum % 128

\* the test of line 600 without j >= 40
frame_complete_checksum_only(cap) ==
    LET d        == cap.data
        data_sum == d[1] + d[2] + d[3] + d[4]
    IN  d[5] = data_sum % 256

\* lines 599-600: 40 bits were read and the last byte is the checksum
frame_complete(cap) ==
    LET d        == cap.data
        data_sum == d[1] + d[2] + d[3] + d[4]
    IN  cap.j >= 40 /\ d[5] = data_sum % 256

\* read_dht22_data without the mask 0x7F on the temperature's high byte
read_dht22_data_no_mask(cap, v, last_stored, last_read) ==
    LET d == cap.data
    IN  IF frame_complete(cap)
        THEN LET hum  == F32Div(F32Add(F32MulSmall(F32FromInt(d[1]), 1, 8),
                                       F32FromInt(d[2])), 10)
                 mag  == F32Div(F32Add(F32MulSmall(F32FromInt(d[3]), 1, 8),
                                       F32FromInt(d[4])), 10)
                 temp == IF (d[3] \div 128) % 2 # 0 THEN F32Neg(mag) ELSE mag
             IN  evaluate_last(last_stored,
                               [v EXCEPT !.humidity = hum, !.temperature = temp],
                               last_read)
        ELSE [values |-> [v EXCEPT !.result = RESULT_BAD_DATA],
              last_read |-> last_read]

\* read_dht22_data with last_read not static: every call starts from
\* INVALID_VALUES and nothing is kept for the next call
read_dht22_data_not_static(cap, v, last_stored, last_read) ==
    LET d == cap.data
    IN  IF frame_complete(cap)
        THEN LET hum  == F32Div(F32Add(F32MulSmall(F32FromInt(d[1]), 1, 8),
                                       F32FromInt(d[2])), 10)
                 mag  == F32Div(F32Add(F32MulSmall(F32FromInt(d[3] % 128), 1, 8),
                                       F32FromInt(d[4])), 10)
                 temp == IF (d[3] \div 128) % 2 # 0 THEN F32Neg(mag) ELSE mag
             IN  evaluate_last(last_stored,
                               [v EXCEPT !.humidity = hum, !.temperature = temp],
                               INVALID_VALUES)
        ELSE [values |-> [v EXCEPT !.result = RESULT_BAD_DATA],
              last_read |-> INVALID_VALUES]

read_dht22_data(cap, v, last_stored, last_read) ==
    LET d == cap.data
    IN  IF frame_complete(cap)
        THEN \* temperature is divided by the double 10.0 and stored back as a
             \* float: the double quotient of two exact operands never lies
             \* on a binary32 tie, so the result is the binary32 quotient.
             LET hum  == F32Div(F32Add(F32MulSmall(F32FromInt(d[1]), 1, 8),
                                       F32FromInt(d[2])), 10)
                 mag  == F32Div(F32Add(F32MulSmall(F32FromInt(d[3] % 128), 1, 8),
                                       F32FromInt(d[4])), 10)
                 temp == IF (d[3] \div 128) % 2 # 0 THEN F32Neg(mag) ELSE mag
             IN  evaluate_last(last_stored,
                               [v EXCEPT !.humidity = hum, !.temperature = temp],
                               last_read)
        ELSE [values |-> [v EXCEPT !.result = RESULT_BAD_DATA],
              last_read |-> last_read]

(***************************************************************************)
(* The persisted reading: /tmp/dhtsensor.<pin>                             *)
(*                                                                         *)
(* A file is absent (fopen returns NULL) or holds text.  Of the text the   *)
(* model keeps what get_last_values looks at: its size, how many of the    *)
(* three "%d" fields sscanf can convert (fields), and their values.        *)
(***************************************************************************)
RECURSIVE Digits(_)
Digits(n) == IF n < 10 THEN 1 ELSE 1 + Digits(n \div 10)

\* number of characters printed by "%d" and by "%06d"
DecLen(n) == Digits(Abs(n)) + (IF n < 0 THEN 1 ELSE 0)

Pad6Len(n) == IF DecLen(n) < 6 THEN 6 ELSE DecLen(n)

NoFile == [kind |-> "absent", size |-> 0, fields |-> 0,
           pin |-> 0, temp |-> 0, hum |-> 0]

\* the text "%d %06d %06d"
RecordFile(pin, temp, hum) ==
    [kind |-> "text", size |-> DecLen(pin) + 1 + Pad6Len(temp) + 1 + Pad6Len(hum),
     fields |-> 3, pin |-> pin, temp |-> temp, hum |-> hum]

\* text that sscanf converts only the first `fields` fields of
CorruptFile(size, fields, pin, temp) ==
    [kind |-> "text", size |-> size, fields |-> fields,
     pin |-> pin, temp |-> temp, hum |-> 0]

\* The digits sscanf reads when the last field runs into the bytes of
\* `contents` that fread did not fill: contents is not terminated.
RECURSIVE AppendDigits(_, _)
AppendDigits(n, tail) ==
    IF tail = <<>> THEN n
    ELSE AppendDigits(IF n < 0 THEN 10 * n - Head(tail) ELSE 10 * n + Head(tail),
                      Tail(tail))

\* u holds the indeterminate values the call can read: the locals read_pin,
\* read_temp and read_hum where sscanf stored nothing, and the digits that
\* follow the text in `contents`.
get_last_values(sensor_pin, file, u) ==
    IF file.kind = "absent" THEN INVALID_VALUES
    ELSE IF ~(file.size < MAX_READING_LENGTH) THEN INVALID_VALUES
    ELSE LET read_pin  == IF file.fields >= 1 THEN file.pin ELSE u.pin
             read_temp == IF file.fields >= 2 THEN file.temp ELSE u.temp
             read_hum  == IF file.fields >= 3 THEN AppendDigits(file.hum, u.tail)
                          ELSE u.hum
             v == [result      |-> RESULT_INVALID,
                   temperature |-> F32Div(F32FromInt(read_temp), 1000),
                   humidity    |-> F32Div(F32FromInt(read_hum), 1000)]
         IN  IF read_pin # sensor_pin THEN INVALID_VALUES
             ELSE [v EXCEPT !.result = evaluate(v)]

\* 0.5f
F32Half == F32Div(F32FromInt(1), 2)

\* (int)(1000 * (x + 0.5f))
Scaled(x) == F32ToInt(F32MulSmall(F32Add(x, F32Half), 125, 3))

\* opened: whether fopen(filename, "w") succeeds.  Returns the file and the
\* int result.
set_last_values(sensor_pin, v, file, opened) ==
    IF opened
    THEN [file |-> RecordFile(sensor_pin, Scaled(v.temperature), Scaled(v.humidity)),
          result |-> 1]
    ELSE [file |-> file, result |-> 0]

(***************************************************************************)
(* Bounds and inputs of the controller model                               *)
(***************************************************************************)
\* largest attempt budget (argv[2]) explored
MaxTries == 3

DEFAULT_PIN == 7

\* the five bytes of a frame for raw 16-bit humidity h and temperature t,
\* with the checksum byte off by ck
Frame(h, t, ck) ==
    LET b == <<h \div 256, h % 256, t \div 256, t % 256>>
    IN  <<b[1], b[2], b[3], b[4], (b[1] + b[2] + b[3] + b[4] + ck) % 256>>

\* dht22_data when only the first j bits of the frame were stored: a byte that
\* got n < 8 bits holds the top n bits of the frame's byte
Partial(data, j) ==
    [k \in 1..5 |->
        IF j >= 8 * k THEN data[k]
        ELSE IF j > 8 * (k - 1) THEN data[k] \div 2^(8 * k - j)
        ELSE 0]

Capture(j, data) == [j |-> j, data |-> Partial(data, j)]

\* Captures offered to the controller: complete frames for readings
\* (humidity, temperature) in tenths, a frame with a wrong checksum, and
\* captures cut short by the poll ceiling
CtlReadings == {<<0, 0>>, <<500, 200>>, <<600, 200>>, <<610, 201>>, <<1000, 200>>}

CtlCaptures ==
    {Capture(40, Frame(r[1], r[2], 0)) : r \in CtlReadings}
      \cup {Capture(40, Frame(500, 200, 1)),
            Capture(0, Frame(500, 200, 0)),
            Capture(39, Frame(0, 0, 0))}

\* Persisted files the run can find: none, a record for this pin, the record
\* a run stores for a zero reading, a record for another pin, text of which
\* only the pin converts, and text of 20 bytes or more
CtlFiles ==
    {NoFile,
     RecordFile(DEFAULT_PIN, 20000, 50000),
     RecordFile(DEFAULT_PIN, 500, 500),
     RecordFile(28, 20000, 50000),
     CorruptFile(3, 1, DEFAULT_PIN, 0),
     CorruptFile(24, 3, DEFAULT_PIN, 20000)}

\* Indeterminate values offered to get_last_values: a pin, a temperature, a
\* humidity that is or is not zero, and no digit or one digit after the text
Indeterminate ==
    [pin : {DEFAULT_PIN}, temp : {20000}, hum : {0, 50000},
     tail : {<<>>, <<0>>}]

(***************************************************************************)
(* main (lines 675-725), past the setup                                    *)
(***************************************************************************)
VARIABLES
    pc,          \* position in main
    dht_pin,
    tries,
    zero_count,
    values,
    last_stored,
    last_read,   \* static local of read_dht22_data
    sensor_file, \* /tmp/dhtsensor.<dht_pin>
    tries0,      \* history: the budget the run started with
    trace,       \* history: the captures and inter-attempt delays so far
    call,        \* history: the capture and the last_read that the latest
                 \* read_dht22_data call started from
    proc,        \* the processes of the two-process model, from their start
    locks,       \* holder of the flock on each lock file
    files,       \* the persisted reading of each sensor file
    rdd,         \* locals of read_dht22_data during a capture
    line         \* what the data line does during that capture

mainVars == <<pc, dht_pin, tries, zero_count, values, last_stored, last_read,
              sensor_file, tries0, trace, call>>

procVars == <<proc, locks, files>>

capVars == <<rdd, line>>

vars == <<mainVars, procVars, capVars>>

\* the two-process model and the capture model are not running
ProcIdle == proc = <<>> /\ locks = <<>> /\ files = <<>>

CapIdle == rdd = <<>> /\ line = <<>>

NoCall == [cap |-> [j |-> -1, data |-> [k \in 1..5 |-> 0]],
           last_read |-> INVALID_VALUES]

CaptureEvent(res, v) ==
    [ev |-> "capture", result |-> res,
     humidity |-> v.humidity, temperature |-> v.temperature]

DelayEvent ==
    [ev |-> "delay", result |-> "none",
     humidity |-> F32Zero, temperature |-> F32Zero]

\* main_body without the refund of the first zero reading (no ++tries)
main_body_no_refund(res, v, zc, t) ==
    LET zc1 == IF res = RESULT_ALL_ZERO THEN zc + 1 ELSE zc
    IN  IF res = RESULT_ALL_ZERO /\ 2 <= zc1
        THEN [values |-> [v EXCEPT !.result = RESULT_OK],
              zero_count |-> zc1, tries |-> t, exit |-> "break"]
        ELSE [values |-> v, zero_count |-> zc1, tries |-> t,
              exit |-> IF RESULT_OK = v.result THEN "break" ELSE "delay"]

\* main_body accepting the third zero reading instead of the second
main_body_third_zero(res, v, zc, t) ==
    LET zc1 == IF res = RESULT_ALL_ZERO THEN zc + 1 ELSE zc
    IN  IF res = RESULT_ALL_ZERO /\ 3 <= zc1
        THEN [values |-> [v EXCEPT !.result = RESULT_OK],
              zero_count |-> zc1, tries |-> t, exit |-> "break"]
        ELSE LET t1 == IF res = RESULT_ALL_ZERO THEN t + 1 ELSE t
             IN  [values |-> v, zero_count |-> zc1, tries |-> t1,
                  exit |-> IF RESULT_OK = v.result THEN "break" ELSE "delay"]

\* main_body with a `continue` after ++tries
main_body_continue(res, v, zc, t) ==
    LET zc1 == IF res = RESULT_ALL_ZERO THEN zc + 1 ELSE zc
    IN  IF res = RESULT_ALL_ZERO /\ 2 <= zc1
        THEN [values |-> [v EXCEPT !.result = RESULT_OK],
              zero_count |-> zc1, tries |-> t, exit |-> "break"]
        ELSE IF res = RESULT_ALL_ZERO
        THEN [values |-> v, zero_count |-> zc1, tries |-> t + 1, exit |-> "next"]
        ELSE [values |-> v, zero_count |-> zc1, tries |-> t,
              exit |-> IF RESULT_OK = v.result THEN "break" ELSE "delay"]

\* main_body without the break on RESULT_OK
main_body_no_break(res, v, zc, t) ==
    LET zc1 == IF res = RESULT_ALL_ZERO THEN zc + 1 ELSE zc
    IN  IF res = RESULT_ALL_ZERO /\ 2 <= zc1
        THEN [values |-> [v EXCEPT !.result = RESULT_OK],
              zero_count |-> zc1, tries |-> t, exit |-> "break"]
        ELSE LET t1 == IF res = RESULT_ALL_ZERO THEN t + 1 ELSE t
             IN  [values |-> v, zero_count |-> zc1, tries |-> t1,
                  exit |-> IF RESULT_OK # v.result THEN "delay" ELSE "next"]

\* The body of the while loop after read_dht22_data has returned res and set
\* v (lines 687-707): the new values, zero_count and tries, and how the body
\* ends: "break", or "delay" for delay(200) and the next iteration, or
\* "next" for the next iteration without a delay.
main_body(res, v, zc, t) ==
    LET zc1 == IF res = RESULT_ALL_ZERO THEN zc + 1 ELSE zc
    IN  IF res = RESULT_ALL_ZERO /\ 2 <= zc1
        THEN [values |-> [v EXCEPT !.result = RESULT_OK],
              zero_count |-> zc1, tries |-> t, exit |-> "break"]
        ELSE LET t1 == IF res = RESULT_ALL_ZERO THEN t + 1 ELSE t
             IN  [values |-> v, zero_count |-> zc1, tries |-> t1,
                  exit |-> IF RESULT_OK = v.result THEN "break"
                           ELSE IF RESULT_OK # v.result THEN "delay"
                           ELSE "next"]

\* while (--tries)
main_while_predecrement(t) == [enter |-> t - 1 # 0, tries |-> t - 1]

\* while (tries--): the test of the value before the decrement
main_while(t) == [enter |-> t # 0, tries |-> t - 1]

Init ==
    /\ pc = "load"
    /\ dht_pin = DEFAULT_PIN
    /\ tries \in 1..MaxTries
    /\ tries0 = tries
    /\ zero_count = 0
    /\ values = INVALID_VALUES
    /\ last_stored = INVALID_VALUES
    /\ last_read = INVALID_VALUES
    /\ sensor_file \in CtlFiles
    /\ trace = <<>>
    /\ call = NoCall
    /\ ProcIdle
    /\ CapIdle

\* line 675
MainLoad ==
    /\ pc = "load"
    /\ \E u \in Indeterminate :
          last_stored' = get_last_values(dht_pin, sensor_file, u)
    /\ values' = INVALID_VALUES
    /\ pc' = "while"
    /\ UNCHANGED <<dht_pin, tries, zero_count, last_read, sensor_file,
                   tries0, trace, call, procVars, capVars>>

\* line 685
MainWhile ==
    /\ pc = "while"
    /\ LET w == main_while(tries)
       IN  /\ tries' = w.tries
           /\ pc' = IF w.enter THEN "read" ELSE "print"
    /\ UNCHANGED <<dht_pin, zero_count, values, last_stored, last_read,
                   sensor_file, tries0, trace, call, procVars, capVars>>

\* lines 687-707, up to the delay, for a capture drawn from caps
Attempt(caps) ==
    /\ pc = "read"
    /\ \E cap \in caps :
          LET rd == read_dht22_data(cap, values, last_stored, last_read)
              b  == main_body(rd.values.result, rd.values, zero_count, tries)
          IN  /\ call' = [cap |-> cap, last_read |-> last_read]
              /\ last_read' = rd.last_read
              /\ values' = b.values
              /\ zero_count' = b.zero_count
              /\ tries' = b.tries
              /\ trace' = Append(trace, CaptureEvent(rd.values.result, rd.values))
              /\ pc' = CASE b.exit = "break" -> "print"
                         [] b.exit = "delay" -> "delay"
                         [] OTHER            -> "while"
    /\ UNCHANGED <<dht_pin, last_stored, sensor_file, tries0, procVars, capVars>>

MainAttempt == Attempt(CtlCaptures)

\* line 706
MainDelay ==
    /\ pc = "delay"
    /\ trace' = Append(trace, DelayEvent)
    /\ pc' = "while"
    /\ UNCHANGED <<dht_pin, tries, zero_count, values, last_stored, last_read,
                   sensor_file, tries0, call, procVars, capVars>>

\* lines 710-725
MainStore ==
    /\ pc = "print"
    /\ \E opened \in BOOLEAN :
          sensor_file' = set_last_values(dht_pin, values, sensor_file, opened).file
    /\ pc' = "done"
    /\ UNCHANGED <<dht_pin, tries, zero_count, values, last_stored, last_read,
                   tries0, trace, call, procVars, capVars>>

Next == MainLoad \/ MainWhile \/ MainAttempt \/ MainDelay \/ MainStore

Spec == Init /\ [][Next]_vars

(***************************************************************************)
(* The controller: claims C1-C5                                            *)
(***************************************************************************)
CaptureIdx == {i \in 1..Len(trace) : trace[i].ev = "capture"}

ZeroIdx == {i \in CaptureIdx : trace[i].result = RESULT_ALL_ZERO}

\* the first attempt of the run classified AllZero
FirstZero(i) == i \in ZeroIdx /\ \A k \in ZeroIdx : i <= k

FailedIdx ==
    {i \in CaptureIdx :
        trace[i].result \in {RESULT_BAD_DATA, RESULT_INCONSISTENT, RESULT_INVALID}}

LastCapture == trace[CHOOSE i \in CaptureIdx : \A k \in CaptureIdx : k <= i]

Stopped == pc \in {"print", "done"}

\* C1: when the controller has stopped and no attempt was classified Ok or
\* AllZero, it has made exactly as many capture attempts as the budget it
\* started with, and the final reading carries the (non-Ok) classification of
\* the last attempt.
C1_BudgetExhaustion ==
    (Stopped /\ \A i \in CaptureIdx :
                    trace[i].result \notin {RESULT_OK, RESULT_ALL_ZERO})
    => /\ Cardinality(CaptureIdx) = tries0
       /\ values.result = LastCapture.result
       /\ values.result # RESULT_OK

C1_Witness ==
    /\ pc = "done"
    /\ tries0 = 3
    /\ Cardinality(CaptureIdx) = 3
    /\ \A i \in CaptureIdx : trace[i].result = RESULT_BAD_DATA
    /\ values.result = RESULT_BAD_DATA

\* C2: an attempt classified AllZero that comes after an earlier AllZero
\* attempt of the run is the last event of the run: the controller has
\* stopped and the final reading is Ok with humidity 0 and temperature 0.
C2_ZeroHandling ==
    \A i \in ZeroIdx :
        ~FirstZero(i)
        => /\ i = Len(trace)
           /\ Stopped
           /\ values.result = RESULT_OK
           /\ values.humidity = F32Zero
           /\ values.temperature = F32Zero

C2_Witness ==
    /\ pc = "done"
    /\ tries0 = 1
    /\ Cardinality(ZeroIdx) = 2
    /\ values.result = RESULT_OK

\* C3: once an attempt has been classified AllZero, the budget left at the
\* head of the loop is still the initial budget less the number of attempts
\* classified BadData, Inconsistent or Invalid: the AllZero attempt took
\* nothing from it.
C3_ZeroKeepsBudget ==
    (pc = "while" /\ ZeroIdx # {})
    => tries = tries0 - Cardinality(FailedIdx)

C3_Witness ==
    /\ pc = "while"
    /\ Cardinality(ZeroIdx) = 1
    /\ FailedIdx # {}
    /\ tries > 0

\* C4 as stated: no inter-attempt delay follows the first AllZero attempt.
C4_NoDelayAfterFirstZero ==
    \A i \in ZeroIdx :
        (FirstZero(i) /\ i < Len(trace)) => trace[i + 1].ev # "delay"

\* C4, amended: the first AllZero attempt is followed by the inter-attempt
\* delay, like every other attempt that is not Ok; the next capture starts
\* only after it.
C4_DelayAfterFirstZero ==
    \A i \in ZeroIdx :
        FirstZero(i)
        => IF i = Len(trace) THEN pc = "delay" ELSE trace[i + 1].ev = "delay"

C4_Witness ==
    \E i \in ZeroIdx :
        /\ FirstZero(i)
        /\ i + 2 <= Len(trace)
        /\ trace[i + 1].ev = "delay"
        /\ trace[i + 2].ev = "capture"

\* C5: an attempt classified Ok is the last event of the run: the controller
\* has stopped, with no capture and no delay after it, and the final reading
\* is that attempt's reading, classified Ok.
C5_OkStops ==
    \A i \in CaptureIdx :
        trace[i].result = RESULT_OK
        => /\ i = Len(trace)
           /\ Stopped
           /\ values = [result      |-> RESULT_OK,
                        humidity    |-> trace[i].humidity,
                        temperature |-> trace[i].temperature]

C5_Witness ==
    /\ pc = "done"
    /\ Len(trace) >= 3
    /\ trace[Len(trace)].ev = "capture"
    /\ trace[Len(trace)].result = RESULT_OK
    /\ values.result = RESULT_OK

(***************************************************************************)
(* The evaluator under the controller's loop: a run that starts at the     *)
(* head of the loop with a given persisted reading and draws its captures  *)
(* from a given set.                                                       *)
(***************************************************************************)
InitLoop(stored, budgets) ==
    /\ pc = "while"
    /\ dht_pin = DEFAULT_PIN
    /\ tries \in budgets
    /\ tries0 = tries
    /\ zero_count = 0
    /\ values = INVALID_VALUES
    /\ last_stored \in stored
    /\ last_read = INVALID_VALUES
    /\ sensor_file = NoFile
    /\ trace = <<>>
    /\ call = NoCall
    /\ ProcIdle
    /\ CapIdle

NextLoop(caps) == MainWhile \/ Attempt(caps) \/ MainDelay

\* what get_last_values returns for a record of this pin that sscanf reads
\* back as written
Stored(temp, hum) ==
    get_last_values(DEFAULT_PIN, RecordFile(DEFAULT_PIN, temp, hum),
                    [pin |-> 0, temp |-> 0, hum |-> 0, tail |-> <<>>])

\* Persisted readings of the evaluator model: none, (50.0 %, 20.0 C), and
\* (50.5 %, 20.5 C)
EvalStored == {INVALID_VALUES, Stored(20000, 50000), Stored(20500, 50500)}

\* Captures of the evaluator model: complete frames for readings (humidity,
\* temperature) in tenths: humidities around 5.0 and 6.0 away from 50.0 % and
\* around 5.0 away from 60.0 %, temperatures around 5.0 and 6.0 away from
\* 20.0 C, the second reading of the spec's example, the zero reading with
\* either sign bit, a negative temperature, the readings around the range
\* limit, and a frame with a wrong checksum
EvalReadings ==
    {<<h, 200>> : h \in {440, 449, 450, 500, 550, 551, 555, 559, 560, 561,
                         600, 649, 650, 651}}
      \cup {<<500, t>> : t \in {140, 149, 250, 255, 259, 260}}
      \cup {<<610, 201>>, <<0, 0>>, <<0, 32768>>, <<500, 32768 + 50>>}
      \cup {<<h, t>> : h \in {999, 1000, 65535}, t \in {0, 200}}

EvalCaptures ==
    {Capture(40, Frame(r[1], r[2], 0)) : r \in EvalReadings}
      \cup {Capture(40, Frame(500, 200, 1))}

\* attempt budget of the evaluator model
EvalTries == 2

InitEval == InitLoop(EvalStored, {EvalTries})

NextEval == NextLoop(EvalCaptures)

SpecEval == InitEval /\ [][NextEval]_vars

\* The decimal value, in thousandths, of a float that was converted from a
\* decimal with at most three places (|x| < 4000): the int nearest to 1000 x.
Milli(x) ==
    LET y == F32MulSmall(x, 125, 3)
    IN  F32ToInt(F32Add(y, IF y.m < 0 THEN F32Neg(F32Half) ELSE F32Half))

\* |a - b| > 5.0 and |a - b| <= 5.0 in both fields, on the decimal values
DiffersByMoreThan5(a, b) ==
    \/ Abs(Milli(a.humidity) - Milli(b.humidity)) > 5000
    \/ Abs(Milli(a.temperature) - Milli(b.temperature)) > 5000

AgreesWithin5(a, b) ==
    /\ Abs(Milli(a.humidity) - Milli(b.humidity)) <= 5000
    /\ Abs(Milli(a.temperature) - Milli(b.temperature)) <= 5000

\* an attempt has just been made; its capture event
Attempted == trace # <<>> /\ trace[Len(trace)].ev = "capture"

LastEvent == trace[Len(trace)]

\* the attempt's reading passed the checksum, range and zero checks
PassedChecks == LastEvent.result \in {RESULT_OK, RESULT_INCONSISTENT}

\* raw 16-bit humidity of the latest capture (tenths of a percent)
RawHumidity == call.cap.data[1] * 256 + call.cap.data[2]

\* C6: with a persisted reading classified Ok and no last-in-process reading
\* classified Inconsistent, a reading that passes the range and zero checks
\* is classified Inconsistent exactly when its humidity or its temperature
\* differs from the persisted one by more than 5.0, and Ok otherwise.
C6_ConsistencyThreshold ==
    (/\ Attempted
     /\ PassedChecks
     /\ last_stored.result = RESULT_OK
     /\ call.last_read.result # RESULT_INCONSISTENT)
    => (LastEvent.result = RESULT_INCONSISTENT
          <=> DiffersByMoreThan5(LastEvent, last_stored))

\* C7: with a persisted reading classified Ok, a reading that differs from it
\* by more than 5.0 in humidity or temperature is classified Ok when the
\* last-in-process reading is classified Inconsistent and differs from the
\* reading by at most 5.0 in both fields, and Inconsistent otherwise.
C7_ConsistencyAgreement ==
    (/\ Attempted
     /\ PassedChecks
     /\ last_stored.result = RESULT_OK
     /\ DiffersByMoreThan5(LastEvent, last_stored))
    => LastEvent.result =
          (IF /\ call.last_read.result = RESULT_INCONSISTENT
              /\ AgreesWithin5(LastEvent, call.last_read)
           THEN RESULT_OK ELSE RESULT_INCONSISTENT)

\* C10: a reading decoded from a frame with a valid checksum is classified
\* Invalid exactly when its raw humidity is at least 1000 tenths (humidity
\* above 99.9); such a reading is never classified AllZero or Inconsistent
\* and is not compared with the persisted or the last-in-process reading
\* (last_read keeps its value).
C10_RangeBoundary ==
    (Attempted /\ LastEvent.result # RESULT_BAD_DATA)
    => /\ LastEvent.result = RESULT_INVALID <=> RawHumidity >= 1000
       /\ RawHumidity >= 1000 => last_read = call.last_read

C10_Witness ==
    /\ Attempted
    /\ RawHumidity = 1000
    /\ LastEvent.result = RESULT_INVALID
    /\ last_stored.result = RESULT_OK
    /\ call.last_read.result = RESULT_INCONSISTENT

\* C15: a final reading classified Ok has a humidity of at most 99.9; an
\* attempt classified Invalid leaves the reading Invalid (neither the zero
\* force-accept nor the agreement with the last read values makes it Ok),
\* is followed by the delay and the next iteration, and has used one unit of
\* the budget: the budget left is the initial one less the attempts made,
\* plus the one unit given back for a first zero reading.
C15_InvalidNeverAccepted ==
    /\ (Stopped /\ values.result = RESULT_OK) => Milli(values.humidity) <= 99900
    /\ (Attempted /\ LastEvent.result = RESULT_INVALID)
         => /\ values.result = RESULT_INVALID
            /\ pc = "delay"
            /\ tries = tries0 - Cardinality(CaptureIdx)
                          + (IF ZeroIdx # {} THEN 1 ELSE 0)

\* a reading of 100.0 % after an Inconsistent reading of 99.9 %, and after a
\* zero reading
C15_Witness ==
    /\ Attempted
    /\ LastEvent.result = RESULT_INVALID
    /\ RawHumidity = 1000
    /\ last_stored.result = RESULT_OK
    /\ call.last_read.result = RESULT_INCONSISTENT
    /\ Milli(call.last_read.humidity) = 99900
    /\ ZeroIdx # {}

\* C17: an attempt whose reading passes the range and zero checks while the
\* persisted reading is classified Ok sets the last-in-process reading to
\* the reading with its classification (Ok or Inconsistent); every other
\* attempt (BadData, Invalid, AllZero, or no persisted reading classified
\* Ok) leaves it as it was before the attempt.
C17_LastReadUpdate ==
    Attempted
    => IF PassedChecks /\ last_stored.result = RESULT_OK
       THEN last_read = [result      |-> LastEvent.result,
                         humidity    |-> LastEvent.humidity,
                         temperature |-> LastEvent.temperature]
       ELSE last_read = call.last_read

\* a BadData attempt after an Inconsistent one: the Inconsistent reading is
\* still the last-in-process reading
C17_Witness ==
    /\ Attempted
    /\ LastEvent.result = RESULT_BAD_DATA
    /\ call.last_read.result = RESULT_INCONSISTENT
    /\ last_read = call.last_read

\* C8: when the persisted reading is absent, unreadable (text that is too
\* long or that does not hold the three fields), for another pin, or not
\* classified Ok, no attempt of the run is classified Inconsistent: every
\* reading that passes the range and zero checks is classified Ok.
NoBaseline ==
    \/ sensor_file.kind = "absent"
    \/ sensor_file.size >= MAX_READING_LENGTH
    \/ sensor_file.fields < 3
    \/ sensor_file.pin # dht_pin
    \/ last_stored.result # RESULT_OK

C8_NoBaseline ==
    (pc \in {"while", "read", "delay", "print"} /\ NoBaseline)
    => \A i \in CaptureIdx : trace[i].result # RESULT_INCONSISTENT

(***************************************************************************)
(* The checksum: runs of one attempt over frames built from a few byte     *)
(* values, and the same frames with one payload bit flipped                *)
(***************************************************************************)
PayloadBytes == {0, 1, 128, 255}

Frame4(b) == <<b[1], b[2], b[3], b[4], (b[1] + b[2] + b[3] + b[4]) % 256>>

\* data with bit pos (1..32, counted from the low bit of the first byte) of
\* the payload inverted
FlipBit(data, pos) ==
    LET k == (pos - 1) \div 8 + 1
        w == 2^((pos - 1) % 8)
    IN  [data EXCEPT ![k] = IF (@ \div w) % 2 = 1 THEN @ - w ELSE @ + w]

FrameCaptures ==
    LET good == {Frame4(b) : b \in PayloadBytes \X PayloadBytes
                                     \X PayloadBytes \X PayloadBytes}
    IN  {Capture(40, f) : f \in good}
          \cup {Capture(40, FlipBit(f, pos)) : f \in good, pos \in 1..32}

InitFrame == InitLoop({INVALID_VALUES, Stored(20000, 50000)}, {1})

NextFrame == NextLoop(FrameCaptures)

SpecFrame == InitFrame /\ [][NextFrame]_vars

ChecksumMatches(d) == d[5] = (d[1] + d[2] + d[3] + d[4]) % 256

\* d is a frame with a matching checksum in which one payload bit was flipped
OneBitFlipped(d) == \E pos \in 1..32 : ChecksumMatches(FlipBit(d, pos))

\* C9: a capture of 40 bits whose fifth byte is the low byte of the sum of
\* the first four is never classified BadData, and a capture that differs
\* from such a frame in exactly one payload bit is always classified BadData.
C9_ChecksumRoundTrip ==
    (Attempted /\ call.cap.j = 40)
    => /\ ChecksumMatches(call.cap.data) => LastEvent.result # RESULT_BAD_DATA
       /\ OneBitFlipped(call.cap.data) => LastEvent.result = RESULT_BAD_DATA

C9_Witness ==
    /\ Attempted
    /\ call.cap.j = 40
    /\ OneBitFlipped(call.cap.data)
    /\ call.cap.data[3] = 128
    /\ LastEvent.result = RESULT_BAD_DATA

\* The value of a float in tenths: the int nearest to 10 x (|x| < 2^17)
Tenths(x) ==
    LET y == F32MulSmall(x, 5, 1)
    IN  F32ToInt(F32Add(y, IF y.m < 0 THEN F32Neg(F32Half) ELSE F32Half))

\* C21: a capture of 40 bits with a matching checksum is converted to a
\* humidity that is, in tenths, byte0 * 256 + byte1, and to a temperature
\* that is, in tenths, (byte2 mod 128) * 256 + byte3, negated exactly when
\* the top bit of byte2 is set: the top bit decides the sign only.
C21_Conversion ==
    (Attempted /\ call.cap.j = 40 /\ ChecksumMatches(call.cap.data))
    => LET d   == call.cap.data
           mag == (d[3] % 128) * 256 + d[4]
       IN  /\ LastEvent.result # RESULT_BAD_DATA
           /\ Tenths(LastEvent.humidity) = d[1] * 256 + d[2]
           /\ Tenths(LastEvent.temperature) =
                 (IF d[3] >= 128 THEN -mag ELSE mag)

\* the frame 01 FF FF FF: humidity 51.1, temperature -3276.7
C21_Witness ==
    /\ Attempted
    /\ call.cap.data = Frame4(<<1, 255, 255, 255>>)
    /\ Tenths(LastEvent.humidity) = 511
    /\ Tenths(LastEvent.temperature) = -32767

(***************************************************************************)
(* Two processes, from their start: main (lines 624-726) with              *)
(* open_lockfile and close_lockfile of locking.c.  Each action is one      *)
(* process running from one system call or library call to the next; the   *)
(* kernel drops a process's flock when the process exits.                   *)
(***************************************************************************)
RECURSIVE DigitSeq(_)
DigitSeq(n) == IF n < 10 THEN <<n>> ELSE Append(DigitSeq(n \div 10), n % 10)

\* the text printed by "%d"
DecText(n) == [neg |-> n < 0, digits |-> DigitSeq(Abs(n))]

\* get_lockfile_name with a name that leaves the sensor out
get_lockfile_name_fixed(sensor) ==
    [dir |-> "/var/run/dht", num |-> DecText(0), ext |-> ".lock"]

\* "/var/run/dht%d.lock": at most 28 characters, never cut by the size of 100
get_lockfile_name(sensor) ==
    [dir |-> "/var/run/dht", num |-> DecText(sensor), ext |-> ".lock"]

\* "/tmp/dhtsensor.%d"
get_sensor_file_name(sensor_pin) ==
    [dir |-> "/tmp/dhtsensor.", num |-> DecText(sensor_pin), ext |-> ""]

\* open_lockfile with a shared lock (LOCK_SH | LOCK_NB)
open_lockfile_shared(holder, open_ok, flock_ok) ==
    IF ~open_ok THEN [granted |-> FALSE, cause |-> "open"]
    ELSE IF ~flock_ok THEN [granted |-> FALSE, cause |-> "flock"]
    ELSE [granted |-> TRUE, cause |-> "none"]

\* holder: the process that holds the flock on the file, 0 for none.
\* open_ok: open() succeeds; flock_ok: flock does not fail for another
\* reason than EWOULDBLOCK.  Every failure is exit(EXIT_FAILURE).
open_lockfile(holder, open_ok, flock_ok) ==
    IF ~open_ok THEN [granted |-> FALSE, cause |-> "open"]
    ELSE IF holder # 0 THEN [granted |-> FALSE, cause |-> "busy"]
    ELSE IF ~flock_ok THEN [granted |-> FALSE, cause |-> "flock"]
    ELSE [granted |-> TRUE, cause |-> "none"]

\* the cause of exit(EXIT_FAILURE) in close_lockfile, "none" when it returns
close_lockfile(unlock_ok, close_ok) ==
    IF ~unlock_ok THEN "unlock"
    ELSE IF ~close_ok THEN "close"
    ELSE "none"

\* sizecvt: exit(EXIT_FAILURE) for a value outside 0..255
sizecvt(read) == [exit |-> read > 255 \/ read < 0, value |-> read % 256]

\* main returning the result of the sensor evaluation, as its header says
main_return_result(v) == IF v.result = RESULT_OK THEN 0 ELSE 1

\* line 725: return 0
main_return(v) == 0

\* the test of line 654 as tries < 0
main_check_tries_negative(t) == t < 0

\* line 654
main_check_tries(t) == t < 1

\* largest attempt budget of a process
ProcTries == 1

Procs == {1, 2}

\* device ids (argv[1]) of the processes
ProcPins == {DEFAULT_PIN, 28}

\* captures of a process: a reading, the zero reading, a wrong checksum
ProcCaptures ==
    {Capture(40, Frame(500, 200, 0)),
     Capture(40, Frame(0, 0, 0)),
     Capture(40, Frame(500, 200, 1))}

\* what digitalRead returns during a capture: levels, or a value that
\* sizecvt rejects
ProcReads == {1, 256}

ProcEvent(e, held, base) == [ev |-> e, held |-> held, base |-> base]

MainIdle ==
    /\ pc = "idle"
    /\ dht_pin = DEFAULT_PIN
    /\ tries = 0
    /\ tries0 = 0
    /\ zero_count = 0
    /\ values = INVALID_VALUES
    /\ last_stored = INVALID_VALUES
    /\ last_read = INVALID_VALUES
    /\ sensor_file = NoFile
    /\ trace = <<>>
    /\ call = NoCall

InitProc ==
    /\ MainIdle
    /\ CapIdle
    /\ proc \in [Procs ->
                  {r \in [pc : {"args"}, pin : ProcPins, tries : 0..ProcTries,
                          tries0 : 0..ProcTries, zero_count : {0},
                          values : {INVALID_VALUES},
                          last_stored : {INVALID_VALUES},
                          last_read : {INVALID_VALUES},
                          status : {-1}, cause : {"none"}, refused_by : {0},
                          hist : {<<>>}] : r.tries0 = r.tries}]
    /\ locks = [n \in {get_lockfile_name(q) : q \in ProcPins} |-> 0]
    /\ files \in [{get_sensor_file_name(q) : q \in ProcPins} ->
                    {NoFile, RecordFile(DEFAULT_PIN, 20000, 50000)}]

\* exit(status): the kernel closes the descriptors, which drops the flock
ProcExit(p, status, cause, by) ==
    /\ proc' = [proc EXCEPT ![p].pc = "exited", ![p].status = status,
                            ![p].cause = cause, ![p].refused_by = by]
    /\ locks' = [n \in DOMAIN locks |-> IF locks[n] = p THEN 0 ELSE locks[n]]

Holds(p) == locks[get_lockfile_name(proc[p].pin)] = p

\* lines 636-658
ProcArgs(p) ==
    /\ proc[p].pc = "args"
    /\ IF main_check_tries(proc[p].tries)
       THEN ProcExit(p, 1, "tries", 0)
       ELSE /\ proc' = [proc EXCEPT ![p].pc = "lock"]
            /\ UNCHANGED locks
    /\ UNCHANGED <<files, mainVars, capVars>>

\* lines 660-661
ProcLock(p) ==
    /\ proc[p].pc = "lock"
    /\ \E open_ok, flock_ok \in BOOLEAN :
          LET name == get_lockfile_name(proc[p].pin)
              r    == open_lockfile(locks[name], open_ok, flock_ok)
          IN  IF r.granted
              THEN /\ locks' = [locks EXCEPT ![name] = p]
                   /\ proc' = [proc EXCEPT
                                 ![p].pc = "wiring",
                                 ![p].hist = Append(@, ProcEvent("lock", TRUE,
                                                       proc[p].last_stored))]
              ELSE ProcExit(p, 1, r.cause,
                            IF r.cause = "busy" THEN locks[name] ELSE 0)
    /\ UNCHANGED <<files, mainVars, capVars>>

\* lines 663-667
ProcWiring(p) ==
    /\ proc[p].pc = "wiring"
    /\ \E ok \in BOOLEAN :
          IF ok THEN /\ proc' = [proc EXCEPT ![p].pc = "setuid"]
                     /\ UNCHANGED locks
          ELSE ProcExit(p, 1, "wiring", 0)
    /\ UNCHANGED <<files, mainVars, capVars>>

\* lines 669-673
ProcSetuid(p) ==
    /\ proc[p].pc = "setuid"
    /\ \E ok \in BOOLEAN :
          IF ok THEN /\ proc' = [proc EXCEPT ![p].pc = "load"]
                     /\ UNCHANGED locks
          ELSE ProcExit(p, 1, "setuid", 0)
    /\ UNCHANGED <<files, mainVars, capVars>>

\* lines 675-684
ProcLoad(p) ==
    /\ proc[p].pc = "load"
    /\ \E u \in Indeterminate :
          LET ls == get_last_values(proc[p].pin,
                                    files[get_sensor_file_name(proc[p].pin)], u)
          IN  proc' = [proc EXCEPT
                         ![p].pc = "while",
                         ![p].last_stored = ls,
                         ![p].values = INVALID_VALUES,
                         ![p].hist = Append(@, ProcEvent("load", Holds(p), ls))]
    /\ UNCHANGED <<locks, files, mainVars, capVars>>

\* line 685
ProcWhile(p) ==
    /\ proc[p].pc = "while"
    /\ LET w == main_while(proc[p].tries)
       IN  proc' = [proc EXCEPT ![p].tries = w.tries,
                                ![p].pc = IF w.enter THEN "read" ELSE "print"]
    /\ UNCHANGED <<locks, files, mainVars, capVars>>

\* lines 687-707, up to the delay
ProcAttempt(p) ==
    /\ proc[p].pc = "read"
    /\ \E read \in ProcReads, cap \in ProcCaptures :
          IF sizecvt(read).exit
          THEN ProcExit(p, 1, "sizecvt", 0)
          ELSE LET me == proc[p]
                   r  == read_dht22_data(cap, me.values, me.last_stored,
                                         me.last_read)
                   b  == main_body(r.values.result, r.values, me.zero_count,
                                   me.tries)
               IN  /\ proc' = [proc EXCEPT
                                 ![p].last_read = r.last_read,
                                 ![p].values = b.values,
                                 ![p].zero_count = b.zero_count,
                                 ![p].tries = b.tries,
                                 ![p].hist = Append(@, ProcEvent("capture",
                                                Holds(p), me.last_stored)),
                                 ![p].pc = CASE b.exit = "break" -> "print"
                                             [] b.exit = "delay" -> "delay"
                                             [] OTHER            -> "while"]
                   /\ UNCHANGED locks
    /\ UNCHANGED <<files, mainVars, capVars>>

\* line 706
ProcDelay(p) ==
    /\ proc[p].pc = "delay"
    /\ proc' = [proc EXCEPT ![p].pc = "while"]
    /\ UNCHANGED <<locks, files, mainVars, capVars>>

\* lines 710-722
ProcStore(p) ==
    /\ proc[p].pc = "print"
    /\ \E opened \in BOOLEAN :
          LET name == get_sensor_file_name(proc[p].pin)
          IN  files' = [files EXCEPT ![name] =
                          set_last_values(proc[p].pin, proc[p].values,
                                          files[name], opened).file]
    /\ proc' = [proc EXCEPT
                  ![p].pc = "close",
                  ![p].hist = Append(@, ProcEvent("store", Holds(p),
                                                  proc[p].last_stored))]
    /\ UNCHANGED <<locks, mainVars, capVars>>

\* lines 723-725
ProcClose(p) ==
    /\ proc[p].pc = "close"
    /\ \E unlock_ok, close_ok \in BOOLEAN :
          LET c == close_lockfile(unlock_ok, close_ok)
          IN  ProcExit(p, IF c = "none" THEN main_return(proc[p].values) ELSE 1,
                       IF c = "none" THEN "return" ELSE c, 0)
    /\ UNCHANGED <<files, mainVars, capVars>>

NextProc ==
    \E p \in Procs :
        \/ ProcArgs(p)
        \/ ProcLock(p)
        \/ ProcWiring(p)
        \/ ProcSetuid(p)
        \/ ProcLoad(p)
        \/ ProcWhile(p)
        \/ ProcAttempt(p)
        \/ ProcDelay(p)
        \/ ProcStore(p)
        \/ ProcClose(p)

SpecProc == InitProc /\ [][NextProc]_vars

(***************************************************************************)
(* Locking and setup: claims C11-C14, C16                                  *)
(***************************************************************************)
\* the process is between its flock(LOCK_EX) and the release of the lock
InCritical(p) ==
    proc[p].pc \in {"wiring", "setuid", "load", "while", "read", "delay",
                    "print", "close"}

EventsOf(p, e) == {i \in 1..Len(proc[p].hist) : proc[p].hist[i].ev = e}

\* C11: of two processes started with the same pin at most one is between
\* lock acquisition and lock release, and that one holds the flock; a
\* process that finds the lock held has exited with non-zero status from its
\* only flock call, without a capture and without reading or writing the
\* persisted reading.
C11_MutualExclusion ==
    /\ \A p, q \in Procs :
          (p # q /\ proc[p].pin = proc[q].pin)
          => ~(InCritical(p) /\ InCritical(q))
    /\ \A p \in Procs : InCritical(p) => Holds(p)
    /\ \A p \in Procs :
          proc[p].cause = "busy"
          => /\ proc[p].pc = "exited"
             /\ proc[p].status # 0
             /\ proc[p].hist = <<>>

C11_Witness ==
    /\ proc[1].pin = proc[2].pin
    /\ proc[1].pc = "read"
    /\ proc[2].pc = "exited"
    /\ proc[2].cause = "busy"
    /\ proc[2].refused_by = 1

\* C12: distinct pins give distinct lock files and distinct sensor files; a
\* process holds the flock of its own lock file only, and is never refused
\* because of a process started with another pin.
C12_DistinctPinsIndependent ==
    /\ \A a, b \in ProcPins :
          a # b => /\ get_lockfile_name(a) # get_lockfile_name(b)
                   /\ get_sensor_file_name(a) # get_sensor_file_name(b)
    /\ \A p \in Procs, n \in DOMAIN locks :
          locks[n] = p => n = get_lockfile_name(proc[p].pin)
    /\ \A p, q \in Procs :
          proc[p].refused_by = q => proc[q].pin = proc[p].pin

\* both processes, with distinct pins, hold their lock and are in a capture
\* cycle
C12_Witness ==
    /\ proc[1].pin # proc[2].pin
    /\ proc[1].pc = "read" /\ Holds(1)
    /\ proc[2].pc = "read" /\ Holds(2)

\* the process got past the setup: it went on to load the persisted reading
PastSetup(p) == EventsOf(p, "load") # {}

C14_FatalSetup ==
    \A p \in Procs :
        (\/ proc[p].pc # "args" /\ proc[p].tries0 < 1
         \/ proc[p].cause \in {"tries", "open", "busy", "flock", "wiring",
                               "setuid"})
        => /\ proc[p].pc = "exited"
           /\ proc[p].status # 0
           /\ EventsOf(p, "load") = {}
           /\ EventsOf(p, "capture") = {}
           /\ EventsOf(p, "store") = {}

C14_Witness ==
    /\ proc[1].cause = "tries"
    /\ proc[2].cause = "setuid"
    /\ proc[1].pc = "exited"
    /\ proc[2].pc = "exited"

\* what C16 says of every run, stored exactly once or not: one load at most,
\* before the captures; one store at most, after them; load and store
\* while the process holds the flock; every capture evaluated against the
\* reading that was loaded
OnceAndLocked(p) ==
    LET h == proc[p].hist
    IN  /\ Cardinality(EventsOf(p, "load")) <= 1
        /\ Cardinality(EventsOf(p, "store")) <= 1
        /\ \A i \in EventsOf(p, "capture") :
              /\ \E l \in EventsOf(p, "load") : l < i /\ h[l].base = h[i].base
              /\ \A st \in EventsOf(p, "store") : i < st
        /\ \A i \in EventsOf(p, "load") \cup EventsOf(p, "store") : h[i].held
        /\ \A st \in EventsOf(p, "store") :
              /\ proc[p].pc \in {"close", "exited"}
              /\ \E l \in EventsOf(p, "load") : l < st
        /\ (PastSetup(p) /\ proc[p].pc \notin {"load", "exited"})
              => proc[p].last_stored = h[CHOOSE l \in EventsOf(p, "load") : TRUE].base

MAX_TIMINGS == 85

\* the history count of the polls of a window stops here
MaxPolls == 300

\* the test 0xFF == counter as a test that an 8-bit counter never passes
poll_ceiling_never(counter) == counter = 256

\* lines 575 and 582: 0xFF == counter
poll_ceiling(counter) == counter = 255

\* the test of line 588 with i > 4
window_stores_bit_late(i) == (i > 4) /\ ((i % 2) = 0)

\* line 588
window_stores_bit(i) == (i >= 4) /\ ((i % 2) = 0)

\* the test of line 592 as counter >= 16
bit_value_ge(counter) == IF counter >= 16 THEN 1 ELSE 0

\* line 592
bit_value(counter) == IF counter > 16 THEN 1 ELSE 0

\* store_bit shifting the new bit in from the top of the byte
store_bit_lsb_first(data, j, bit) ==
    [data EXCEPT ![j \div 8 + 1] = @ \div 2 + 128 * bit]

\* lines 591-595 on dht22_data[0..5] (sequence positions 1..6; position 6 is
\* the int that follows the array): dht22_data[j/8] <<= 1, then |= 1
store_bit(data, j, bit) ==
    [data EXCEPT ![j \div 8 + 1] = 2 * @ + bit]

\* The number of polls of window i that find the level unchanged.  The line
\* answers the start signal and sends the bits of line.frame, most
\* significant first, then line.extra: a gap of line.gap polls in the first
\* four windows and in every odd window, line.zero or line.one polls for a
\* bit, line.slow polls in window 6 if line.slow > 0; from window
\* line.quiet on the level never changes.
Same(ln, i) ==
    IF i >= ln.quiet THEN 256
    ELSE IF i = 6 /\ ln.slow > 0 THEN ln.slow
    ELSE IF i < 4 \/ i % 2 = 1 THEN ln.gap
    ELSE LET k   == (i - 4) \div 2
             bit == IF k >= 40 THEN ln.extra
                    ELSE (ln.frame[k \div 8 + 1] \div 2^(7 - (k % 8))) % 2
         IN  IF bit = 1 THEN ln.one ELSE ln.zero

\* digitalRead in the while condition of window i after c polls of it
digitalRead(ln, i, c, laststate) ==
    IF ln.fault = i /\ c = 0 THEN 256
    ELSE IF c < Same(ln, i) THEN laststate
    ELSE 1 - laststate

\* digitalRead of line 580: the level the line has changed to, unless the
\* level has dropped back (line.glitch) or never changed
digitalReadAfter(ln, i, c, laststate) ==
    IF ln.fault = i /\ c > 0 THEN -1
    ELSE IF c < Same(ln, i) \/ i \in ln.glitch THEN laststate
    ELSE 1 - laststate

CapFrames == {Frame(500, 200, 0), Frame(0, 0, 0), Frame(1000, 32768 + 50, 0)}

CapLines ==
    [frame : CapFrames, extra : {1}, gap : {2}, zero : {3, 16}, one : {17},
     slow : {0, 254}, quiet : {0, 4, 5, 82, 83, 84, 85},
     glitch : {{}, {10}}, fault : {-1, 8}]

NoLocals ==
    [pc |-> "start", mode |-> "output", i |-> 0, j |-> 0, counter |-> 0,
     polls |-> 0, laststate |-> 1, data |-> <<0, 0, 0, 0, 0, 0>>,
     counts |-> <<>>, result |-> "none"]

\* the lines of the model with the fairness condition: a line that never
\* answers, one that stops after the start signal, after the frame, or never
CapLinesLive ==
    [frame : {Frame(500, 200, 0)}, extra : {1}, gap : {2}, zero : {16},
     one : {17}, slow : {0, 254}, quiet : {0, 5, 84, 85},
     glitch : {{}}, fault : {-1, 8}]

InitCaptureOver(lines) ==
    /\ MainIdle
    /\ ProcIdle
    /\ line \in lines
    /\ \E stale \in {<<1, 244, 0, 200, 189>>, <<0, 0, 0, 0, 0>>}, beyond \in {0, 3} :
          rdd = [NoLocals EXCEPT !.data = stale \o <<beyond>>]

\* lines 545-564: dht22_data is static and keeps the previous capture until
\* the memset; the int after it is not cleared
CaptureStart ==
    /\ rdd.pc = "start"
    /\ rdd' = [rdd EXCEPT !.pc = "poll", !.mode = "input", !.i = 0, !.j = 0,
                          !.counter = 0, !.polls = 0, !.laststate = 1,
                          !.data = <<0, 0, 0, 0, 0, rdd.data[6]>>]
    /\ UNCHANGED <<line, mainVars, procVars>>

\* lines 571-579: the while condition and, if it holds, the body
CapturePoll ==
    /\ rdd.pc = "poll"
    /\ LET r == sizecvt(digitalRead(line, rdd.i, rdd.polls, rdd.laststate))
       IN  IF r.exit THEN rdd' = [rdd EXCEPT !.pc = "exited"]
           ELSE IF r.value = rdd.laststate
           THEN LET c == (rdd.counter + 1) % 256
                IN  rdd' = [rdd EXCEPT
                              !.counter = c,
                              !.polls = IF @ < MaxPolls THEN @ + 1 ELSE @,
                              !.pc = IF poll_ceiling(c) THEN "window" ELSE "poll"]
           ELSE rdd' = [rdd EXCEPT !.pc = "window"]
    /\ UNCHANGED <<line, mainVars, procVars>>

\* lines 580-596, ++i and the test i < MAX_TIMINGS, counter = 0
CaptureWindow ==
    /\ rdd.pc = "window"
    /\ LET r == sizecvt(digitalReadAfter(line, rdd.i, rdd.polls, rdd.laststate))
           c == rdd.counter
       IN  IF r.exit THEN rdd' = [rdd EXCEPT !.pc = "exited"]
           ELSE IF poll_ceiling(c)
           THEN rdd' = [rdd EXCEPT !.laststate = r.value,
                                   !.counts = Append(@, c),
                                   !.pc = "decode"]
           ELSE LET stores == window_stores_bit(rdd.i)
                IN  rdd' = [rdd EXCEPT
                              !.laststate = r.value,
                              !.counts = Append(@, c),
                              !.data = IF stores
                                       THEN store_bit(@, rdd.j, bit_value(c))
                                       ELSE @,
                              !.j = IF stores THEN (@ + 1) % 256 ELSE @,
                              !.i = @ + 1,
                              !.counter = 0,
                              !.polls = 0,
                              !.pc = IF rdd.i + 1 < MAX_TIMINGS THEN "poll"
                                     ELSE "decode"]
    /\ UNCHANGED <<line, mainVars, procVars>>

\* lines 598-617, against the persisted reading (50.0 %, 20.0 C)
CaptureDecode ==
    /\ rdd.pc = "decode"
    /\ LET cap == [j |-> rdd.j, data |-> SubSeq(rdd.data, 1, 5)]
           r   == read_dht22_data(cap, INVALID_VALUES, Stored(20000, 50000),
                                  INVALID_VALUES)
       IN  rdd' = [rdd EXCEPT !.pc = "done", !.result = r.values.result]
    /\ UNCHANGED <<line, mainVars, procVars>>

InitCapture == InitCaptureOver(CapLines)

NextCapture == CaptureStart \/ CapturePoll \/ CaptureWindow \/ CaptureDecode

SpecCapture == InitCapture /\ [][NextCapture]_vars

\* the process keeps running: the polling loop takes its next step
SpecCaptureLive ==
    /\ InitCaptureOver(CapLinesLive)
    /\ [][NextCapture]_vars
    /\ WF_vars(CaptureStart \/ CapturePoll \/ CaptureWindow)

(***************************************************************************)
(* The capture: claims C18-C20                                             *)
(***************************************************************************)
\* the polling loop has ended: the bits are ready to be decoded, or sizecvt
\* has ended the process
CaptureEnded == rdd.pc \in {"decode", "done", "exited"}

\* C18: a capture that stored fewer than 40 bits is classified BadData,
\* whatever the bytes hold.
C18_ShortCaptureIsBadData ==
    (rdd.pc = "done" /\ rdd.j < 40) => rdd.result = RESULT_BAD_DATA

\* 39 bits stored, all zero: the checksum equation holds on the bytes
C18_Witness ==
    /\ rdd.pc = "done"
    /\ rdd.j = 39
    /\ rdd.data[5] = (rdd.data[1] + rdd.data[2] + rdd.data[3] + rdd.data[4]) % 256
    /\ rdd.result = RESULT_BAD_DATA

\* windows observed so far, as positions of rdd.counts (window i is at i + 1)
Observed == 1..Len(rdd.counts)

\* the poll counter is the number of polls of the window (it has not
\* wrapped) and is at most 255; a window ends on a change of level or at 255
\* polls; 255 polls end the capture; at most 85 windows are observed; the
\* pin is an input from the start of the polling to the end of the capture
C19_Bounded ==
    /\ rdd.counter = rdd.polls
    /\ rdd.counter <= 255
    /\ rdd.i <= 85
    /\ Len(rdd.counts) <= 85
    /\ \A w \in Observed :
          /\ rdd.counts[w] <= 255
          /\ rdd.counts[w] = 255 \/ rdd.counts[w] = Same(line, w - 1)
          /\ rdd.counts[w] = 255
                => w = Len(rdd.counts) /\ rdd.pc \in {"decode", "done"}
    /\ rdd.pc = "window"
          => rdd.counter = 255 \/ rdd.counter = Same(line, rdd.i)
    /\ rdd.pc # "start" => rdd.mode = "input"

\* C19: the capture always ends, and until then the poll counter, the
\* windows and the pin mode stay within C19_Bounded.
C19_CaptureTerminates == []C19_Bounded /\ <>CaptureEnded

\* a capture that observed all 85 windows and has ended
C19_Witness ==
    /\ rdd.pc = "done"
    /\ Len(rdd.counts) = 85
    /\ rdd.i = 85
    /\ rdd.mode = "input"

\* positions in rdd.counts of the windows i >= 4, i even, that ended on a
\* change of level
BitWindows ==
    {w \in Observed : w - 1 >= 4 /\ (w - 1) % 2 = 0 /\ rdd.counts[w] # 255}

\* C20: the bits stored are one per window i >= 4, i even; bit k (k = 0..39)
\* is in byte k / 8, is 1 exactly when window 4 + 2k counted more than 16
\* polls, and is at position 7 - (k mod 8) once the byte has its 8 bits (a
\* byte that has n < 8 bits holds them in its low n bits, first bit on top).
C20_BitDecoding ==
    rdd.pc # "start"
    => /\ rdd.j = Cardinality(BitWindows)
       /\ \A k \in 0..39 :
             k < rdd.j
             => LET got == rdd.j - 8 * (k \div 8)
                    n   == IF got > 8 THEN 8 ELSE got
                    pos == n - 1 - (k % 8)
                IN  (rdd.data[k \div 8 + 1] \div 2^pos) % 2
                       = (IF rdd.counts[4 + 2 * k + 1] > 16 THEN 1 ELSE 0)
       /\ \A b \in 1..5 : rdd.data[b] < 256

\* a complete frame whose bit windows counted 16 polls (bit 0) and 17 polls
\* (bit 1), decoded to a reading
C20_Witness ==
    /\ rdd.pc = "done"
    /\ rdd.j = 40
    /\ \E w \in BitWindows : rdd.counts[w] = 16
    /\ \E w \in BitWindows : rdd.counts[w] = 17
    /\ SubSeq(rdd.data, 1, 5) = Frame(500, 200, 0)
    /\ rdd.result = RESULT_OK

\* C22: during a capture at most 40 bits are stored, and every bit is stored
\* at a byte index (its number divided by 8) in 0..4 of dht22_data.
C22_FrameBufferBound ==
    /\ rdd.j <= 40
    /\ \A k \in 0..(rdd.j - 1) : k \div 8 \in 0..4

(***************************************************************************)
(* The controller over every sequence of classifications: the loop of main *)
(* (lines 685-708) with the value returned by read_dht22_data drawn from   *)
(* the five results.                                                       *)
(***************************************************************************)
Results ==
    {RESULT_OK, RESULT_BAD_DATA, RESULT_ALL_ZERO, RESULT_INCONSISTENT,
     RESULT_INVALID}

\* lines 687-707, up to the delay, for any result of read_dht22_data
AttemptResult ==
    /\ pc = "read"
    /\ \E res \in Results :
          LET v == [values EXCEPT !.result = res]
              b == main_body(res, v, zero_count, tries)
          IN  /\ values' = b.values
              /\ zero_count' = b.zero_count
              /\ tries' = b.tries
              /\ trace' = Append(trace, CaptureEvent(res, v))
              /\ pc' = CASE b.exit = "break" -> "print"
                         [] b.exit = "delay" -> "delay"
                         [] OTHER            -> "while"
    /\ UNCHANGED <<dht_pin, last_stored, last_read, sensor_file, tries0, call,
                   procVars, capVars>>

InitCtl == InitLoop({INVALID_VALUES}, 1..MaxTries)

NextCtl == MainWhile \/ AttemptResult \/ MainDelay

\* the process keeps running: read_dht22_data and delay return
SpecCtl == InitCtl /\ [][NextCtl]_vars /\ WF_vars(NextCtl)

\* at most tries0 + 1 attempts, tries0 + 1 only with a zero reading among
\* them; at most two zero readings, and the second one ends the loop
C23_Bounded ==
    /\ Cardinality(CaptureIdx)
          <= tries0 + (IF ZeroIdx # {} THEN 1 ELSE 0)
    /\ Cardinality(ZeroIdx) <= 2
    /\ Cardinality(ZeroIdx) = 2 => Stopped /\ LastCapture.result = RESULT_ALL_ZERO

\* C23: whatever the classifications, the loop ends, after at most
\* tries0 + 1 capture attempts, the extra one only when a first zero reading
\* gave its unit back; a zero reading is retried once at most.
C23_TerminationBound == []C23_Bounded /\ <>Stopped

\* budget 3, four attempts, one of them the zero reading, loop ended
C23_Witness ==
    /\ Stopped
    /\ tries0 = 3
    /\ Cardinality(CaptureIdx) = 4
    /\ Cardinality(ZeroIdx) = 1
    /\ values.result # RESULT_OK

(***************************************************************************)
(* Two runs for one pin: the run of main to its end, then line 675 of the  *)
(* next run, which loads what the first run left in /tmp/dhtsensor.<pin>.  *)
(***************************************************************************)
\* line 675 of the next run.  values, trace and call are kept as the history
\* of the first run; last_stored is the next run's.
MainNextRun ==
    /\ pc = "done"
    /\ \E u \in Indeterminate :
          last_stored' = get_last_values(dht_pin, sensor_file, u)
    /\ pc' = "next"
    /\ UNCHANGED <<dht_pin, tries, zero_count, values, last_read, sensor_file,
                   tries0, trace, call, procVars, capVars>>

NextRuns == Next \/ MainNextRun

SpecRuns == Init /\ [][NextRuns]_vars

\* Readings of the persistence model (humidity, temperature as the sensor
\* sends them, sign and magnitude, in tenths): every humidity 0.0..99.9 at
\* 20.0 C, every temperature -40.0..80.0 C at 50.0 %, and the zero reading
PersistReadings ==
    {<<h, 200>> : h \in 0..999}
      \cup {<<500, t>> : t \in 0..800}
      \cup {<<500, 32768 + t>> : t \in 1..400}
      \cup {<<0, 0>>}

PersistCaptures == {Capture(40, Frame(r[1], r[2], 0)) : r \in PersistReadings}

\* a run of one attempt that finds no file
InitPersist ==
    /\ pc = "load"
    /\ dht_pin = DEFAULT_PIN
    /\ tries = 1
    /\ tries0 = tries
    /\ zero_count = 0
    /\ values = INVALID_VALUES
    /\ last_stored = INVALID_VALUES
    /\ last_read = INVALID_VALUES
    /\ sensor_file = NoFile
    /\ trace = <<>>
    /\ call = NoCall
    /\ ProcIdle
    /\ CapIdle

NextPersist ==
    MainLoad \/ MainWhile \/ Attempt(PersistCaptures) \/ MainDelay
      \/ MainStore \/ MainNextRun

SpecPersist == InitPersist /\ [][NextPersist]_vars

\* the first run wrote its final values to the file
StoredItsValues ==
    sensor_file = set_last_values(dht_pin, values, NoFile, TRUE).file

\* C24: when a run has stored its reading and the next run of the same pin
\* has loaded the file, the loaded humidity and temperature are the stored
\* ones.
C24_RoundTrip ==
    (pc = "next" /\ StoredItsValues)
    => /\ Milli(last_stored.humidity) = Milli(values.humidity)
       /\ Milli(last_stored.temperature) = Milli(values.temperature)

\* C25: when a run ended with a final classification other than Ok and
\* stored its values, the reading the next run of the same pin loads is not
\* classified Ok.
C25_UntrustedNotBaseline ==
    (pc = "next" /\ values.result # RESULT_OK /\ StoredItsValues)
    => last_stored.result # RESULT_OK

====
